---- MODULE Spec2Model ----
(***************************************************************************)
(* The blog-list REST backend (part4/bloglist): the blog routes of         *)
(* controllers/blogs.js behind the middleware of utils/middleware.js.      *)
(*                                                                         *)
(* The two collections are `blogs` and `users`.  Every request occupies a  *)
(* slot of `req`; a handler is cut into one action per database            *)
(* operation it awaits, so that requests interleave exactly where the      *)
(* event loop lets them.  An optional JavaScript value is a sequence of    *)
(* length at most one: <<>> is undefined, <<v>> is the value v.            *)
(***************************************************************************)
EXTENDS Integers, Sequences, FiniteSets, TLC

VARIABLES blogs, users, nextId, req, started

vars == <<blogs, users, nextId, req, started>>

(* ------------------------------ bounds --------------------------------- *)

\* Identifiers the store hands out: 1..MaxId.
MaxId == 4
\* Requests received in one behaviour.
MaxRequests == 2

\* Requests that can be in flight together.
Slots == {1, 2}

Users == {"u1", "u2"}

Range(s) == {s[i] : i \in 1..Len(s)}

(* ------------------------------ inputs --------------------------------- *)

\* A signed token: the signature, the expiry, and the payload's id.
Tokens ==
  { [sig |-> "good", expired |-> FALSE, id |-> <<"u1">>],
    [sig |-> "good", expired |-> FALSE, id |-> <<"u2">>],
    [sig |-> "good", expired |-> FALSE, id |-> <<>>],
    [sig |-> "bad",  expired |-> FALSE, id |-> <<"u1">>],
    [sig |-> "good", expired |-> TRUE,  id |-> <<"u1">>] }

\* The Authorization header: absent, or a scheme and a token.
Headers ==
  { [present |-> FALSE, scheme |-> "", token |-> CHOOSE t \in Tokens : t.id = <<"u1">> /\ t.sig = "good" /\ ~t.expired] }
  \cup { [present |-> TRUE, scheme |-> "Basic", token |-> t] :
           t \in {t \in Tokens : t.id = <<"u1">> /\ t.sig = "good" /\ ~t.expired} }
  \cup { [present |-> TRUE, scheme |-> "Bearer", token |-> t] : t \in Tokens }

\* Request bodies: each field is given or not.
Bodies ==
  { [title |-> <<"t1">>, author |-> <<"a1">>, url |-> <<"w1">>, likes |-> <<5>>,
     user |-> <<"u2">>, additional |-> <<"x">>],
    [title |-> <<"t2">>, author |-> <<>>, url |-> <<"w2">>, likes |-> <<>>,
     user |-> <<>>, additional |-> <<>>],
    [title |-> <<>>, author |-> <<"a1">>, url |-> <<"w1">>, likes |-> <<5>>,
     user |-> <<"u1">>, additional |-> <<>>],
    [title |-> <<"t1">>, author |-> <<"a1">>, url |-> <<>>, likes |-> <<5>>,
     user |-> <<"u1">>, additional |-> <<>>],
    [title |-> <<"">>, author |-> <<>>, url |-> <<>>, likes |-> <<>>,
     user |-> <<>>, additional |-> <<>>],
    [title |-> <<"t2">>, author |-> <<>>, url |-> <<>>, likes |-> <<>>,
     user |-> <<"u2">>, additional |-> <<"x">>] }

NoBody == [title |-> <<>>, author |-> <<>>, url |-> <<>>, likes |-> <<>>,
           user |-> <<>>, additional |-> <<>>]

\* The :id parameter: malformed, or a well-formed identifier.  Identifier 0
\* is well formed and never handed out by the store.
Params == { [ok |-> FALSE, id |-> 0] } \cup { [ok |-> TRUE, id |-> i] : i \in 0..MaxId }

NoParam == [ok |-> TRUE, id |-> 0]

(* ------------------------------ state ---------------------------------- *)

IdleReq ==
  [ pc |-> "idle", op |-> "none", auth |-> CHOOSE h \in Headers : ~h.present,
    param |-> NoParam, body |-> NoBody, user |-> <<>>,
    status |-> 0, sends |-> 0, writes |-> 0, newBlog |-> <<>>, n |-> 0 ]

Init ==
  /\ blogs = [ b \in {1, 2} |->
                 IF b = 1
                   THEN [title |-> "s1", author |-> "n1", url |-> "v1", likes |-> 1,
                         user |-> "u1", additional |-> <<>>]
                   ELSE [title |-> "s2", author |-> "unknown", url |-> "v2", likes |-> 2,
                         user |-> "u2", additional |-> <<>>] ]
  /\ users = [ u \in Users |->
                 IF u = "u1" THEN [name |-> <<"n1">>, blogs |-> <<1>>, v |-> 0]
                             ELSE [name |-> <<>>, blogs |-> <<2>>, v |-> 0] ]
  /\ nextId = 3
  /\ req = [ s \in Slots |-> IdleReq ]
  /\ started = 0

(* ---------------------------- the response ----------------------------- *)

\* response.status(code).json(..) / .send(..) / .end(): the first call
\* sends the status line; a later call cannot change what was sent.
Send(q, code) ==
  [q EXCEPT !.status = IF q.sends = 0 THEN code ELSE @, !.sends = @ + 1]

\* Express's default error handler, reached by next(error): it answers 500
\* unless the headers were already sent.
finalHandler(q) == IF q.sends = 0 THEN Send(q, 500) ELSE q

\* Variant of errorHandler without the ValidationError branch: the error
\* falls through to next(error).
errorHandler_NoValidationBranch(q, name) ==
  IF name = "CastError" THEN Send(q, 400)
  ELSE IF name = "JsonWebTokenError" THEN Send(q, 401)
  ELSE IF name = "TokenExpiredError" THEN Send(q, 401)
  ELSE finalHandler(q)

\* errorHandler: the answer for each error name the handler knows; any
\* other error goes on to next(error).
errorHandler(q, name) ==
  IF name = "CastError" THEN Send(q, 400)
  ELSE IF name = "ValidationError" THEN Send(q, 400)
  ELSE IF name = "JsonWebTokenError" THEN Send(q, 401)
  ELSE IF name = "TokenExpiredError" THEN Send(q, 401)
  ELSE finalHandler(q)

Finish(q) == [q EXCEPT !.pc = "done"]

(* ---------------------------- middleware ------------------------------- *)

\* request.token: the text after 'Bearer ', or null.
tokenExtractor(h) ==
  IF h.present /\ h.scheme = "Bearer" THEN <<h.token>> ELSE <<>>

\* Variant of jwtVerify that decodes the payload without checking the
\* signature or the expiry.
jwtVerify_DecodeOnly(token) ==
  IF token = <<>> THEN [error |-> "JsonWebTokenError", id |-> <<>>]
  ELSE [error |-> "", id |-> token[1].id]

\* jwt.verify(token, SECRET): the error it throws, or the decoded payload.
jwtVerify(token) ==
  IF token = <<>> THEN [error |-> "JsonWebTokenError", id |-> <<>>]
  ELSE IF token[1].sig # "good" THEN [error |-> "JsonWebTokenError", id |-> <<>>]
  ELSE IF token[1].expired THEN [error |-> "TokenExpiredError", id |-> <<>>]
  ELSE [error |-> "", id |-> token[1].id]

\* User.findById(id): the stored user document, or null.
findUserById(id) ==
  IF id # <<>> /\ id[1] \in DOMAIN users
    THEN << [id |-> id[1], name |-> users[id[1]].name,
             blogs |-> users[id[1]].blogs, v |-> users[id[1]].v] >>
    ELSE <<>>

SlotFree(s) == req[s].pc \in {"idle", "done"}

\* Creates that have not yet inserted their blog.
PendingCreates ==
  Cardinality({t \in Slots : req[t].op = "create" /\ req[t].pc = "handler"})

\* The n-th request received, with its inputs.
NewReq(op, h, p, b) ==
  [IdleReq EXCEPT !.pc = "handler", !.op = op, !.auth = h, !.param = p, !.body = b,
                  !.n = started + 1]

\* A POST or DELETE request arrives and runs through userExtractor.
userExtractor(s) ==
  /\ SlotFree(s)
  /\ started < MaxRequests
  /\ \E op \in {"create", "delete"}, h \in Headers, p \in Params, b \in Bodies \cup {NoBody} :
       /\ op = "create" => p = NoParam /\ nextId + PendingCreates <= MaxId
       /\ op = "delete" => b = NoBody /\ p.id < nextId
       /\ LET q0 == NewReq(op, h, p, b)
              decodedToken == jwtVerify(tokenExtractor(h))
          IN  IF decodedToken.error # ""
                THEN req' = [req EXCEPT ![s] = Finish(errorHandler(q0, decodedToken.error))]
                ELSE LET q1 == IF decodedToken.id = <<>> THEN Send(q0, 401) ELSE q0
                     IN  req' = [req EXCEPT ![s] =
                                   [q1 EXCEPT !.user = findUserById(decodedToken.id)]]
  /\ started' = started + 1
  /\ UNCHANGED <<blogs, users, nextId>>

(* --------------------------- POST /api/blogs --------------------------- *)

\* Variant of NewBlog that spreads the body last, so that the body's keys
\* override the handler's.
NewBlog_BodyLast(body, user) ==
  [ title |-> body.title,
    author |-> IF body.author # <<>> THEN body.author
               ELSE IF user.name # <<>> THEN user.name ELSE <<"unknown">>,
    url |-> body.url,
    likes |-> IF body.likes # <<>> THEN body.likes ELSE <<0>>,
    user |-> IF body.user # <<>> THEN body.user ELSE <<user.id>>,
    additional |-> body.additional ]

\* Variant of NewBlog that defaults a missing title and url the way it
\* defaults likes.
NewBlog_DefaultsAll(body, user) ==
  [ title |-> IF body.title # <<>> THEN body.title ELSE <<"untitled">>,
    author |-> IF user.name # <<>> THEN user.name ELSE <<"unknown">>,
    url |-> IF body.url # <<>> THEN body.url ELSE <<"about:blank">>,
    likes |-> IF body.likes # <<>> THEN body.likes ELSE <<0>>,
    user |-> <<user.id>>,
    additional |-> body.additional ]

\* new Blog({...body, author, likes, user}): the later keys override body's.
NewBlog(body, user) ==
  [ title |-> body.title,
    author |-> IF user.name # <<>> THEN user.name ELSE <<"unknown">>,
    url |-> body.url,
    likes |-> IF body.likes # <<>> THEN body.likes ELSE <<0>>,
    user |-> <<user.id>>,
    additional |-> body.additional ]

\* The Blog schema's validators: title and url are required (an empty
\* string does not satisfy `required`).
ValidBlog(doc) ==
  /\ doc.title # <<>> /\ doc.title # <<"">>
  /\ doc.url # <<>> /\ doc.url # <<"">>

\* The document as the schema stores it: paths outside the schema are dropped.
StoredBlog(doc) ==
  [ title |-> doc.title[1], author |-> doc.author[1], url |-> doc.url[1],
    likes |-> doc.likes[1], user |-> doc.user[1], additional |-> <<>> ]

\* newBlog: what blog.save() resolves to, the stored document and its id.
Saved(id, doc) ==
  [ id |-> id, title |-> doc.title, author |-> doc.author, url |-> doc.url,
    likes |-> doc.likes, user |-> doc.user, additional |-> doc.additional ]

\* blog.save(): validation, then the insert under a fresh identifier.
postBlogSave(s) ==
  /\ req[s].pc = "handler"
  /\ req[s].op = "create"
  /\ LET q == req[s] IN
       IF q.user = <<>>
         THEN \* request.user.name on null: TypeError
              /\ req' = [req EXCEPT ![s] = Finish(errorHandler(q, "TypeError"))]
              /\ UNCHANGED <<blogs, nextId>>
         ELSE LET blog == NewBlog(q.body, q.user[1]) IN
              IF ~ValidBlog(blog)
                THEN /\ req' = [req EXCEPT ![s] = Finish(errorHandler(q, "ValidationError"))]
                     /\ UNCHANGED <<blogs, nextId>>
                ELSE /\ nextId <= MaxId
                     /\ blogs' = [ b \in DOMAIN blogs \cup {nextId} |->
                                     IF b = nextId THEN StoredBlog(blog) ELSE blogs[b] ]
                     /\ nextId' = nextId + 1
                     /\ req' = [req EXCEPT ![s] =
                                  [q EXCEPT !.pc = "usersave",
                                            !.newBlog = <<Saved(nextId, StoredBlog(blog))>>,
                                            !.writes = @ + 1]]
  /\ UNCHANGED <<users, started>>

\* request.user.blogs = request.user.blogs.concat(newBlog.id);
\* request.user.save(): the array is written whole, guarded by the
\* document's version; then the 201.
postUserSave(s) ==
  /\ req[s].pc = "usersave"
  /\ LET q == req[s]
         u == q.user[1]
     IN  IF users[u.id].v = u.v
           THEN /\ users' = [users EXCEPT ![u.id].blogs = Append(u.blogs, q.newBlog[1].id),
                                          ![u.id].v = @ + 1]
                /\ req' = [req EXCEPT ![s] =
                             Finish(Send([q EXCEPT !.writes = @ + 1], 201))]
           ELSE /\ req' = [req EXCEPT ![s] = Finish(errorHandler(q, "VersionError"))]
                /\ UNCHANGED users
  /\ UNCHANGED <<blogs, nextId, started>>

(* ------------------------ DELETE /api/blogs/:id ------------------------ *)

\* Variant of IsOwner that asks the stored blog for its user instead of
\* looking the id up in the requester's blogs sequence.
IsOwner_ByBlogUser(user, param) ==
  /\ param.ok
  /\ param.id \in DOMAIN blogs
  /\ blogs[param.id].user = user.id

\* userBlogIds.includes(request.params.id)
IsOwner(user, param) == param.ok /\ param.id \in Range(user.blogs)

\* The ownership check; the 401 it sends does not end the handler.
deleteCheck(s) ==
  /\ req[s].pc = "handler"
  /\ req[s].op = "delete"
  /\ LET q == req[s] IN
       IF q.user = <<>>
         THEN \* request.user.blogs on null: TypeError
              req' = [req EXCEPT ![s] = Finish(errorHandler(q, "TypeError"))]
         ELSE LET q1 == IF ~IsOwner(q.user[1], q.param) THEN Send(q, 401) ELSE q
              IN  req' = [req EXCEPT ![s] = [q1 EXCEPT !.pc = "deleting"]]
  /\ UNCHANGED <<blogs, users, nextId, started>>

\* Blog.findByIdAndDelete(request.params.id), then the 204.
deleteOp(s) ==
  /\ req[s].pc = "deleting"
  /\ LET q == req[s] IN
       IF ~q.param.ok
         THEN /\ req' = [req EXCEPT ![s] = Finish(errorHandler(q, "CastError"))]
              /\ UNCHANGED blogs
         ELSE /\ blogs' = [ b \in DOMAIN blogs \ {q.param.id} |-> blogs[b] ]
              /\ req' = [req EXCEPT ![s] =
                           Finish(Send([q EXCEPT !.writes =
                                          IF q.param.id \in DOMAIN blogs THEN @ + 1 ELSE @],
                                       204))]
  /\ UNCHANGED <<users, nextId, started>>

(* -------------------------- PUT /api/blogs/:id ------------------------- *)

\* Variant of UpdateDoc that passes the request body as the update.
UpdateDoc_WholeBody(body) == body

\* The update document: title, author, likes and url of the body, and
\* nothing else of it.
UpdateDoc(body) ==
  [ title |-> body.title, author |-> body.author,
    likes |-> body.likes, url |-> body.url,
    user |-> <<>>, additional |-> <<>> ]

\* runValidators: the schema's validators on the paths the update sets.
ValidUpdate(upd) == upd.title # <<"">> /\ upd.url # <<"">>

\* The update as the store applies it: every schema path the update
\* document gives a value is set; a key whose value is undefined is not
\* part of the update, and a path outside the schema is dropped.
ApplyUpdate(blog, upd) ==
  [ blog EXCEPT !.title = IF upd.title # <<>> THEN upd.title[1] ELSE @,
                !.author = IF upd.author # <<>> THEN upd.author[1] ELSE @,
                !.likes = IF upd.likes # <<>> THEN upd.likes[1] ELSE @,
                !.url = IF upd.url # <<>> THEN upd.url[1] ELSE @,
                !.user = IF upd.user # <<>> THEN upd.user[1] ELSE @ ]

\* A PUT request arrives; Blog.findByIdAndUpdate, then the answer.
put(s) ==
  /\ SlotFree(s)
  /\ started < MaxRequests
  /\ \E p \in Params, b \in Bodies :
       /\ p.id < nextId
       /\ LET q == [NewReq("update", IdleReq.auth, p, b) EXCEPT !.pc = "done"]
              upd == UpdateDoc(b)
          IN  IF ~p.ok
                THEN /\ req' = [req EXCEPT ![s] = errorHandler(q, "CastError")]
                     /\ UNCHANGED blogs
              ELSE IF ~ValidUpdate(upd)
                THEN /\ req' = [req EXCEPT ![s] = errorHandler(q, "ValidationError")]
                     /\ UNCHANGED blogs
              ELSE IF p.id \notin DOMAIN blogs
                THEN \* 404, then response.json(null) throws: headers sent
                     /\ req' = [req EXCEPT ![s] =
                                  errorHandler(Send(Send(q, 404), 200), "Error")]
                     /\ UNCHANGED blogs
              ELSE /\ blogs' = [blogs EXCEPT ![p.id] = ApplyUpdate(@, upd)]
                   /\ req' = [req EXCEPT ![s] = Send([q EXCEPT !.writes = @ + 1], 200)]
  /\ started' = started + 1
  /\ UNCHANGED <<users, nextId>>

(* ---------------------------- specification ---------------------------- *)

Next ==
  \E s \in Slots :
    \/ userExtractor(s)
    \/ postBlogSave(s)
    \/ postUserSave(s)
    \/ deleteCheck(s)
    \/ deleteOp(s)
    \/ put(s)

Spec == Init /\ [][Next]_vars

(* ------------------------------- claims -------------------------------- *)

\* The step is one of request slot s.
Stepped(s) == req'[s] # req[s]

\* The request carries a token that verifies and names a stored user.
Authenticated(q) ==
  /\ q.auth.present /\ q.auth.scheme = "Bearer"
  /\ q.auth.token.sig = "good" /\ ~q.auth.token.expired
  /\ q.auth.token.id # <<>>

\* The :id is not among the ids of the requester's blogs sequence.
NotOwned(q) == ~q.param.ok \/ q.param.id \notin Range(q.user[1].blogs)

\* C1: a DELETE by an authenticated user whose blogs sequence does not
\* contain the id leaves the blog collection exactly as it was, and its
\* answer is 401.
C1_NonOwnerDeleteRejected ==
  [][ \A s \in Slots :
        ( /\ Stepped(s)
          /\ req'[s].op = "delete"
          /\ Authenticated(req'[s])
          /\ req'[s].user # <<>>
          /\ NotOwned(req'[s]) )
        => /\ blogs' = blogs
           /\ req'[s].pc = "done" => req'[s].status = 401 ]_vars

\* C2: a DELETE with a valid token and a malformed id removes no blog and
\* its answer is 400.
C2_MalformedIdIs400 ==
  [][ \A s \in Slots :
        ( /\ Stepped(s)
          /\ req'[s].op = "delete"
          /\ Authenticated(req'[s])
          /\ ~req'[s].param.ok )
        => /\ blogs' = blogs
           /\ req'[s].pc = "done" => req'[s].status = 400 ]_vars

\* C3: when a create has answered 201, the blog it saved has the requester
\* as its user, whatever user the body named; the requester's blogs
\* sequence contains the new id; and the blog stored under that id, while
\* it is stored, has the requester as its user.
C3_CreatedBlogLinked ==
  \A s \in Slots :
    (req[s].op = "create" /\ req[s].pc = "done" /\ req[s].status = 201)
    => LET u == req[s].auth.token.id[1]
           b == req[s].newBlog[1]
       IN  /\ b.user = u
           /\ b.id \in Range(users[u].blogs)
           /\ b.id \in DOMAIN blogs => blogs[b.id].user = u

\* C3 witness: a 201 for a body that named another user as the blog's user.
C3_Witness ==
  \E s \in Slots :
    /\ req[s].op = "create" /\ req[s].pc = "done" /\ req[s].status = 201
    /\ req[s].body.user # <<>>
    /\ req[s].body.user # req[s].auth.token.id
    /\ req[s].newBlog[1].id \in DOMAIN blogs

\* No request is in flight.
Quiet == \A s \in Slots : req[s].pc \in {"idle", "done"}

\* C4: once no request is in flight, every stored blog's user is a stored
\* user whose blogs sequence contains the blog's id.
C4_LinksConsistentWhenQuiet ==
  Quiet =>
    \A b \in DOMAIN blogs :
      /\ blogs[b].user \in DOMAIN users
      /\ b \in Range(users[blogs[b].user].blogs)

\* The request carries no usable token: no header, a header that is not
\* 'Bearer <token>', a bad signature, an expired token, a payload without id.
NoUsableToken(q) ==
  \/ ~q.auth.present
  \/ q.auth.scheme # "Bearer"
  \/ q.auth.token.sig # "good"
  \/ q.auth.token.expired
  \/ q.auth.token.id = <<>>

\* C5: every step of a create or delete without a usable token leaves the
\* blogs and the users as they were, has written nothing, and the request's
\* answer is 401.
C5_NoTokenNoWrite ==
  [][ \A s \in Slots :
        ( /\ Stepped(s)
          /\ req'[s].op \in {"create", "delete"}
          /\ NoUsableToken(req'[s]) )
        => /\ blogs' = blogs
           /\ users' = users
           /\ req'[s].writes = 0
           /\ req'[s].status = 401 ]_vars

\* C5 witness: a delete of a stored blog whose token has no id went through
\* its handler, and a create without a header was answered.
C5_Witness ==
  \E s, t \in Slots :
    /\ req[s].op = "delete" /\ req[s].pc = "done"
    /\ req[s].auth.present /\ req[s].auth.scheme = "Bearer"
    /\ req[s].auth.token.sig = "good" /\ req[s].auth.token.id = <<>>
    /\ req[s].param.ok /\ req[s].param.id \in DOMAIN blogs
    /\ req[s].sends = 1
    /\ req[t].op = "create" /\ req[t].pc = "done" /\ ~req[t].auth.present
    /\ req[t].status = 401

\* C6: a create with a valid token whose body lacks title or url writes
\* nothing at any of its steps (the blogs and the users stay as they were)
\* and its answer is 400.
C6_InvalidCreateWritesNothing ==
  [][ \A s \in Slots :
        ( /\ Stepped(s)
          /\ req'[s].op = "create"
          /\ Authenticated(req'[s])
          /\ (req'[s].body.title = <<>> \/ req'[s].body.url = <<>>) )
        => /\ blogs' = blogs
           /\ users' = users
           /\ req'[s].writes = 0
           /\ req'[s].pc = "done" => req'[s].status = 400 ]_vars

\* C6 witness: an authenticated create without title was answered 400 and
\* another one without url was answered 400.
C6_Witness ==
  \E s, t \in Slots :
    /\ req[s].op = "create" /\ req[s].pc = "done" /\ Authenticated(req[s])
    /\ req[s].body.title = <<>> /\ req[s].body.url # <<>> /\ req[s].status = 400
    /\ req[t].op = "create" /\ req[t].pc = "done" /\ Authenticated(req[t])
    /\ req[t].body.url = <<>> /\ req[t].body.title # <<>> /\ req[t].status = 400

\* The value of a permitted field after an update: the body's when the
\* body gives one, the previous value otherwise.
Merged(given, old) == IF given # <<>> THEN given[1] ELSE old

\* C7: an update answered 200 sets, on the targeted blog, exactly the
\* fields among title, author, likes, url that the body gives; the blog's
\* other fields (its user, any field outside the schema), the set of
\* stored blogs, every other blog and every user are as before.
C7_UpdateFrame ==
  [][ \A s \in Slots :
        ( /\ Stepped(s)
          /\ req'[s].op = "update"
          /\ req'[s].status = 200 )
        => LET id == req'[s].param.id
               b == req'[s].body
           IN  /\ id \in DOMAIN blogs
               /\ DOMAIN blogs' = DOMAIN blogs
               /\ \A o \in DOMAIN blogs \ {id} : blogs'[o] = blogs[o]
               /\ users' = users
               /\ nextId' = nextId
               /\ blogs'[id].title = Merged(b.title, blogs[id].title)
               /\ blogs'[id].author = Merged(b.author, blogs[id].author)
               /\ blogs'[id].likes = Merged(b.likes, blogs[id].likes)
               /\ blogs'[id].url = Merged(b.url, blogs[id].url)
               /\ blogs'[id].user = blogs[id].user
               /\ blogs'[id].additional = blogs[id].additional ]_vars

\* C7 witness: an update answered 200 whose body gave a title, omitted
\* author, url and likes, and carried a user other than the blog's owner
\* and a field outside the schema; the blog has the new title.
C7_Witness ==
  \E s \in Slots :
    /\ req[s].op = "update" /\ req[s].pc = "done" /\ req[s].status = 200
    /\ req[s].body.title # <<>> /\ req[s].body.author = <<>>
    /\ req[s].body.url = <<>> /\ req[s].body.likes = <<>>
    /\ req[s].body.additional # <<>>
    /\ req[s].param.id \in DOMAIN blogs
    /\ req[s].body.user # <<>>
    /\ req[s].body.user[1] # blogs[req[s].param.id].user
    /\ blogs[req[s].param.id].title = req[s].body.title[1]

\* The body sets a required field to the empty string.
EmptiesRequired(b) == b.title = <<"">> \/ b.url = <<"">>

\* C8 as stated: an update not answered 200 changes no blog; a well-formed
\* id that resolves to no stored blog is answered 404; a body that sets a
\* required field to the empty string is answered 400.
C8_FailedUpdate_AsStated ==
  [][ \A s \in Slots :
        ( /\ Stepped(s)
          /\ req'[s].op = "update" )
        => /\ req'[s].status # 200 => blogs' = blogs
           /\ (req'[s].param.ok /\ req'[s].param.id \notin DOMAIN blogs)
                => req'[s].status = 404
           /\ (req'[s].param.ok /\ EmptiesRequired(req'[s].body))
                => req'[s].status = 400 ]_vars

\* C8 amended: an update not answered 200 changes no blog; a well-formed
\* id that resolves to no stored blog is answered 404 when the body's
\* fields pass validation; a body that sets a required field to the empty
\* string is answered 400, whether or not the id resolves to a blog.
C8_FailedUpdate ==
  [][ \A s \in Slots :
        ( /\ Stepped(s)
          /\ req'[s].op = "update" )
        => /\ req'[s].status # 200 => blogs' = blogs /\ users' = users
           /\ ( /\ req'[s].param.ok
                /\ req'[s].param.id \notin DOMAIN blogs
                /\ ~EmptiesRequired(req'[s].body) )
                => req'[s].status = 404
           /\ (req'[s].param.ok /\ EmptiesRequired(req'[s].body))
                => req'[s].status = 400 ]_vars

\* C8 witness: an update of a stored blog that set the title to the empty
\* string was answered 400, and an update of an id that resolves to no blog
\* was answered 404.
C8_Witness ==
  \E s, t \in Slots :
    /\ req[s].op = "update" /\ req[s].pc = "done" /\ req[s].status = 400
    /\ req[s].param.ok /\ req[s].param.id \in DOMAIN blogs
    /\ req[s].body.title = <<"">>
    /\ req[t].op = "update" /\ req[t].pc = "done" /\ req[t].status = 404
    /\ req[t].param.ok /\ req[t].param.id \notin DOMAIN blogs

\* C9: a DELETE by an authenticated user with a well-formed id that matches
\* no stored blog removes nothing and is answered 204.
C9_DeleteAbsentIs204 ==
  [][ \A s \in Slots :
        ( /\ Stepped(s)
          /\ req'[s].op = "delete"
          /\ req'[s].pc = "done"
          /\ Authenticated(req'[s])
          /\ req'[s].param.ok
          /\ req'[s].param.id \notin DOMAIN blogs )
        => /\ blogs' = blogs
           /\ req'[s].status = 204 ]_vars

\* C10: the blog saved by a create answered 201 has the body's author when
\* the body gives one, else the requester's name, else "unknown"; and the
\* body's likes when the body gives one, else 0.
C10_CreateDefaults ==
  \A s \in Slots :
    (req[s].op = "create" /\ req[s].pc = "done" /\ req[s].status = 201)
    => LET b == req[s].body
           u == req[s].user[1]
       IN  /\ req[s].newBlog[1].author =
                Merged(b.author, Merged(u.name, "unknown"))
           /\ req[s].newBlog[1].likes = Merged(b.likes, 0)

\* s is a prefix of t.
IsPrefix(s, t) == Len(s) <= Len(t) /\ \A i \in 1..Len(s) : s[i] = t[i]

\* A DELETE by an authenticated user, answered 204.
Deleted204(q) ==
  /\ q.op = "delete" /\ q.pc = "done" /\ q.status = 204
  /\ Authenticated(q) /\ q.user # <<>>

\* C11: a delete by the owner (the id is in the requester's blogs
\* sequence) sends nothing but its 204, leaves every user as it was and,
\* once answered, the id is no stored blog's; no step ever shortens or
\* reorders a user's blogs sequence, so the id of a delete answered 204
\* stays in its requester's sequence; and a later delete of the same id by
\* the same user is answered 204 too.
C11_DeletedIdStaysOwned ==
  [][ /\ \A u \in Users : IsPrefix(users[u].blogs, users'[u].blogs)
      /\ \A s \in Slots :
           ( /\ Stepped(s)
             /\ req'[s].op = "delete"
             /\ Authenticated(req'[s])
             /\ req'[s].user # <<>>
             /\ ~NotOwned(req'[s]) )
           => /\ users' = users
              /\ req'[s].pc = "deleting" => req'[s].sends = 0
              /\ req'[s].pc = "done"
                   => /\ req'[s].status = 204
                      /\ req'[s].sends = 1
                      /\ req'[s].param.id \notin DOMAIN blogs'
      /\ \A s \in Slots :
           Deleted204(req'[s])
           => req'[s].param.id \in Range(users'[req'[s].user[1].id].blogs)
      /\ \A s, t \in Slots :
           ( /\ Deleted204(req'[s])
             /\ req'[t].op = "delete" /\ req'[t].pc = "done"
             /\ Authenticated(req'[t])
             /\ req'[t].auth = req'[s].auth
             /\ req'[t].param = req'[s].param
             /\ req'[t].n > req'[s].n )
           => req'[t].status = 204 ]_vars

\* C11 witness: the owner's delete of a stored blog was answered 204, the
\* id is still in the owner's blogs sequence, and a later delete of the
\* same id by the same owner, received after the blog was gone, was
\* answered 204 again.
C11_Witness ==
  \E s, t \in Slots :
    /\ Deleted204(req[s]) /\ Deleted204(req[t])
    /\ req[s].n < req[t].n
    /\ req[s].writes = 1 /\ req[t].writes = 0
    /\ req[t].auth = req[s].auth
    /\ req[t].param = req[s].param
    /\ req[s].param.id \notin DOMAIN blogs
    /\ req[s].param.id \in Range(users[req[s].user[1].id].blogs)

\* C12: every request gets exactly one response: no step attempts a second
\* one, a finished request has sent one, and once a request has sent its
\* status none of its later steps performs a storage write.
C12_ExactlyOneResponse ==
  [][ \A s \in Slots :
        Stepped(s)
        => /\ req'[s].sends <= 1
           /\ req'[s].pc = "done" => req'[s].sends = 1
           /\ (req'[s].n = req[s].n /\ req[s].sends >= 1)
                => /\ req'[s].writes = req[s].writes
                   /\ blogs' = blogs
                   /\ users' = users ]_vars

====
